---- MODULE Spec2Model ----
(***************************************************************************)
(* The ledger of src/blockchain.py (Block, Blockchain) and the identity    *)
(* registry of src/identity.py, as a state machine; further down the users *)
(* table of src/models.py, the report routes of src/auth_upload_app.py and *)
(* the forest-loss client of src/satellite_api.py.                         *)
(*                                                                         *)
(* Python objects live on a heap: a block's data field holds a reference   *)
(* (an index into heap), exactly as Block.__init__ stores the object it is *)
(* handed.  A Python value is a record [kind, items, s]:                   *)
(*   kind = "dict": items is the sequence of the dict's items in insertion *)
(*                  order (keys distinct): <<key, value>> for a string     *)
(*                  value, <<key, "<dict>", items>> for a nested dict;     *)
(*   kind = "str" : s is the string;                                       *)
(*   kind = "set" : a Python set, which json.dumps cannot serialize.       *)
(*                                                                         *)
(* hashlib.sha256 is modelled as a collision-free function of the          *)
(* serialized text (the digest is the tagged text); json.dumps is          *)
(* computed: keys are sorted and the text is built token by token.         *)
(***************************************************************************)
EXTENDS Integers, Sequences, FiniteSets

VARIABLES chain, heap, ret, calls, hashed,
          identities, users, reports, current_user

vars == <<chain, heap, ret, calls, hashed,
          identities, users, reports, current_user>>

\* calls: the frame of the create_block call each thread is in (SpecConc);
\* hashed: the results of direct hash_block calls (SpecHash);
\* identities: the Identity objects built so far (SpecIdentity);
\* users, reports: the rows of the users and reports tables, and
\* current_user: the id of the logged-in user, 0 for none (SpecUsers,
\* SpecReports)
platform == <<identities, users, reports, current_user>>

\* before anything is created: no Identity object, empty tables, nobody
\* logged in
NoPlatform ==
  /\ identities = <<>>
  /\ users = <<>>
  /\ reports = <<>>
  /\ current_user = 0

\* ---------------------------------------------------------------- bounds
MaxChain == 4

\* time.time() readings: the wall clock may repeat a value or be set back
Times == {1, 2}

\* ---------------------------------------------------------------- values
PyStr(s) == [kind |-> "str", items |-> <<>>, s |-> s]

PyDict(items) == [kind |-> "dict", items |-> items, s |-> ""]

PySet == [kind |-> "set", items |-> <<>>, s |-> ""]

Keys(d) == {d.items[i][1] : i \in DOMAIN d.items}

\* dict.get(key): the value stored under key, or "None" when key is absent
DictGet(d, key) ==
  IF key \in Keys(d)
    THEN d.items[CHOOSE i \in DOMAIN d.items : d.items[i][1] = key][2]
    ELSE "None"

\* d[key] = value on a dict: replaces in place or appends
DictSet(d, key, value) ==
  IF key \in Keys(d)
    THEN PyDict([i \in DOMAIN d.items |->
                   IF d.items[i][1] = key THEN <<key, value>> ELSE d.items[i]])
    ELSE PyDict(Append(d.items, <<key, value>>))

\* Python's == on the items of two dicts: the same keys with equal values,
\* whatever the insertion order, nested dicts compared the same way
RECURSIVE ItemsEq(_, _)
ItemsEq(x, y) ==
  /\ Len(x) = Len(y)
  /\ \A i \in DOMAIN x : \E j \in DOMAIN y :
       /\ x[i][1] = y[j][1]
       /\ Len(x[i]) = Len(y[j])
       /\ IF Len(x[i]) = 3 THEN ItemsEq(x[i][3], y[j][3])
                           ELSE x[i][2] = y[j][2]

\* Python's == on two values
PyEq(a, b) ==
  /\ a.kind = b.kind
  /\ a.s = b.s
  /\ ItemsEq(a.items, b.items)

\* ---------------------------------------------------------------- Block
Block(index, previous_hash, timestamp, data, hash) ==
  [index |-> index, previous_hash |-> previous_hash, timestamp |-> timestamp,
   data |-> data, hash |-> hash]

NoBlock == Block(0, <<>>, 0, 0, <<>>)

\* ---------------------------------------------------------------- hashing
\* Serialized text and digests are modelled as tagged tuples, not as TLA+
\* strings: the text json.dumps writes is the sequence of its tokens, and the
\* hex digest of a text is <<"sha256", text>>, so that two digests are equal
\* exactly when the texts are.  The sentinel '0' is the one-token text.
ZeroHash == <<"0">>

\* the order sort_keys=True gives the keys that occur in payloads
KeyOrder == <<"id_number", "message", "name", "public_key", "type", "uuid">>

SortedKeys(d) == SelectSeq(KeyOrder, LAMBDA k : k \in Keys(d))

\* the items of a dict as json.dumps(sort_keys=True) writes them: sorted by
\* key at every nesting level
RECURSIVE SortedItems(_)
SortedItems(d) ==
  LET ks == SortedKeys(d)
      item(k) == d.items[CHOOSE i \in DOMAIN d.items : d.items[i][1] = k]
  IN  [i \in DOMAIN ks |->
         IF Len(item(ks[i])) = 3
           THEN <<ks[i], "{}", SortedItems(PyDict(item(ks[i])[3]))>>
           ELSE <<ks[i], item(ks[i])[2]>>]

\* mutant: json.dumps accepts nothing but a dict
json_raises_unless_dict(v) == v.kind # "dict"

\* json.dumps raises TypeError on a value that is not JSON-serializable
json_raises(v) == v.kind = "set"

\* mutant: json.dumps(v) without sort_keys, the items in insertion order
json_dumps_insertion_order(v) ==
  IF v.kind = "dict" THEN <<"{}", v.items>> ELSE <<"str", v.s>>

\* json.dumps(v, sort_keys=True) of a payload value
json_dumps(v) ==
  IF v.kind = "dict" THEN <<"{}", SortedItems(v)>> ELSE <<"str", v.s>>

sha256(text) == <<"sha256", text>>

\* mutant: the payload is left out of the serialized dict
hash_block_no_data(index, previous_hash, timestamp, data) ==
  LET block_string ==
        << <<"index", index>>, <<"previous_hash", previous_hash>>,
           <<"timestamp", timestamp>> >>
  IN  sha256(block_string)

\* mutant: the timestamp is left out of the serialized dict
hash_block_no_timestamp(index, previous_hash, timestamp, data) ==
  LET block_string ==
        << <<"data", json_dumps(data)>>, <<"index", index>>,
           <<"previous_hash", previous_hash>> >>
  IN  sha256(block_string)

hash_block(index, previous_hash, timestamp, data) ==
  LET block_string ==
        << <<"data", json_dumps(data)>>, <<"index", index>>,
           <<"previous_hash", previous_hash>>, <<"timestamp", timestamp>> >>
  IN  sha256(block_string)

\* ---------------------------------------------------------------- Blockchain
\* mutant: a genesis payload always starts over at index 1 with the sentinel
new_block_genesis_restart(ch, hp, timestamp, ref) ==
  LET genesis == DictGet(hp[ref], "type") = "genesis"
      index == IF genesis THEN 1 ELSE Len(ch) + 1
      previous_hash == IF ch # <<>> /\ ~genesis THEN ch[Len(ch)].hash
                       ELSE ZeroHash
      hash == hash_block(index, previous_hash, timestamp, hp[ref])
  IN  Block(index, previous_hash, timestamp, ref, hash)

\* mutant: previous_hash read from chain[0] instead of chain[-1]
new_block_first_hash(ch, hp, timestamp, ref) ==
  LET index == Len(ch) + 1
      previous_hash == IF ch # <<>> THEN ch[1].hash ELSE ZeroHash
      hash == hash_block(index, previous_hash, timestamp, hp[ref])
  IN  Block(index, previous_hash, timestamp, ref, hash)

\* mutant: the hash is computed before previous_hash is looked up
new_block_hash_unlinked(ch, hp, timestamp, ref) ==
  LET index == Len(ch) + 1
      previous_hash == IF ch # <<>> THEN ch[Len(ch)].hash ELSE ZeroHash
      hash == hash_block(index, ZeroHash, timestamp, hp[ref])
  IN  Block(index, previous_hash, timestamp, ref, hash)

\* mutant: index = len(self.chain), a 0-based index
new_block_zero_based(ch, hp, timestamp, ref) ==
  LET index == Len(ch)
      previous_hash == IF ch # <<>> THEN ch[Len(ch)].hash ELSE ZeroHash
      hash == hash_block(index, previous_hash, timestamp, hp[ref])
  IN  Block(index, previous_hash, timestamp, ref, hash)

\* mutant: the clock is read again for the hash
new_block_second_clock_read(ch, hp, timestamp, ref) ==
  LET index == Len(ch) + 1
      previous_hash == IF ch # <<>> THEN ch[Len(ch)].hash ELSE ZeroHash
      hash == hash_block(index, previous_hash, timestamp + 1, hp[ref])
  IN  Block(index, previous_hash, timestamp, ref, hash)

\* the block create_block builds on chain ch for the object ref of heap hp
new_block(ch, hp, timestamp, ref) ==
  LET index == Len(ch) + 1
      previous_hash == IF ch # <<>> THEN ch[Len(ch)].hash ELSE ZeroHash
      hash == hash_block(index, previous_hash, timestamp, hp[ref])
  IN  Block(index, previous_hash, timestamp, ref, hash)

\* mutant: a payload whose id_number is already in the chain is not appended
create_block_unique_id(ch, hp, timestamp, ref) ==
  IF /\ DictGet(hp[ref], "id_number") # "None"
     /\ \E i \in DOMAIN ch :
          DictGet(hp[ch[i].data], "id_number") = DictGet(hp[ref], "id_number")
    THEN ch
    ELSE Append(ch, new_block(ch, hp, timestamp, ref))

\* mutant: the block is inserted before the last block of a non-empty chain
create_block_before_last(ch, hp, timestamp, ref) ==
  IF ch = <<>> THEN <<new_block(ch, hp, timestamp, ref)>>
  ELSE Append(SubSeq(ch, 1, Len(ch) - 1), new_block(ch, hp, timestamp, ref))
       \o <<ch[Len(ch)]>>

\* mutant: self.chain[-1] = block on a non-empty chain
create_block_overwrite(ch, hp, timestamp, ref) ==
  IF ch = <<>> THEN <<new_block(ch, hp, timestamp, ref)>>
  ELSE [ch EXCEPT ![Len(ch)] = new_block(ch, hp, timestamp, ref)]

\* mutant: self.chain.insert(0, block)
create_block_insert_front(ch, hp, timestamp, ref) ==
  <<new_block(ch, hp, timestamp, ref)>> \o ch

\* self.chain after create_block(data) returns
create_block(ch, hp, timestamp, ref) ==
  Append(ch, new_block(ch, hp, timestamp, ref))

\* mutant: the genesis payload without its message
genesis_data_no_message == PyDict(<< <<"type", "genesis">> >>)

\* the operations class Blockchain defines
BlockchainMethods ==
  {"__init__", "create_genesis_block", "create_block", "hash_block"}

genesis_data ==
  PyDict(<< <<"type", "genesis">>, <<"message", "Genesis Block">> >>)

Ret(op, kind, key, exc, obj, block) ==
  [op |-> op, kind |-> kind, key |-> key, exc |-> exc, obj |-> obj, block |-> block]

Threads == {"t1", "t2"}

\* the locals of a create_block call; pc is the line the thread is to run
Frame(pc, index, timestamp, previous_hash, hash, ref) ==
  [pc |-> pc, index |-> index, timestamp |-> timestamp,
   previous_hash |-> previous_hash, hash |-> hash, ref |-> ref]

NoCall == Frame("idle", 0, 0, <<>>, <<>>, 0)

Init ==
  \E t \in Times :
    /\ heap = <<genesis_data>>
    /\ chain = create_block(<<>>, heap, t, 1)
    /\ ret = Ret("__init__", "dict", "", "", 1, chain[1])
    /\ calls = [th \in Threads |-> NoCall]
    /\ hashed = <<>>
    /\ NoPlatform

\* ---------------------------------------------------------------- registry
\* Identity(name, id_number, public_key).to_dict(), with self.uuid = uuid
to_dict(uuid, name, id_number, public_key) ==
  PyDict(<< <<"uuid", uuid>>, <<"name", name>>,
            <<"id_number", id_number>>, <<"public_key", public_key>> >>)

\* mutant: the scan keeps the latest match instead of returning the first
RECURSIVE verify_from_latest(_, _, _, _)
verify_from_latest(ch, hp, id_number, i) ==
  IF i > Len(ch) THEN 0
  ELSE LET data == hp[ch[i].data]
           later == verify_from_latest(ch, hp, id_number, i + 1)
       IN  IF later # 0 THEN later
           ELSE IF /\ data.kind = "dict"
                   /\ DictGet(data, "type") = "identity"
                   /\ DictGet(data, "id_number") = id_number
                  THEN ch[i].data
                  ELSE 0

\* mutant: the type tag is not looked at
RECURSIVE verify_from_no_type_check(_, _, _, _)
verify_from_no_type_check(ch, hp, id_number, i) ==
  IF i > Len(ch) THEN 0
  ELSE LET data == hp[ch[i].data]
       IN  IF /\ data.kind = "dict"
              /\ DictGet(data, "id_number") = id_number
             THEN ch[i].data
             ELSE verify_from_no_type_check(ch, hp, id_number, i + 1)

\* the forward scan of verify_identity from position i; 0 stands for None
RECURSIVE verify_from(_, _, _, _)
verify_from(ch, hp, id_number, i) ==
  IF i > Len(ch) THEN 0
  ELSE LET data == hp[ch[i].data]
       IN  IF /\ data.kind = "dict"
              /\ DictGet(data, "type") = "identity"
              /\ DictGet(data, "id_number") = id_number
             THEN ch[i].data
             ELSE verify_from(ch, hp, id_number, i + 1)

verify_identity(ch, hp, id_number) == verify_from(ch, hp, id_number, 1)

\* data.get raises AttributeError on a value that has no get method
get_raises(data) == data.kind # "dict"

\* mutant: data.get("type") is called without the isinstance test
RECURSIVE verify_raises_from_no_isinstance(_, _, _, _)
verify_raises_from_no_isinstance(ch, hp, id_number, i) ==
  IF i > Len(ch) THEN FALSE
  ELSE LET data == hp[ch[i].data]
       IN  IF get_raises(data) THEN TRUE
           ELSE IF /\ DictGet(data, "type") = "identity"
                   /\ DictGet(data, "id_number") = id_number
                  THEN FALSE
                  ELSE verify_raises_from_no_isinstance(ch, hp, id_number,
                                                        i + 1)

\* whether the scan from position i raises: data.get is reached only behind
\* isinstance(data, dict), and the scan stops at the first match
RECURSIVE verify_raises_from(_, _, _, _)
verify_raises_from(ch, hp, id_number, i) ==
  IF i > Len(ch) THEN FALSE
  ELSE LET data == hp[ch[i].data]
       IN  IF data.kind = "dict" /\ get_raises(data) THEN TRUE
           ELSE IF /\ data.kind = "dict"
                   /\ DictGet(data, "type") = "identity"
                   /\ DictGet(data, "id_number") = id_number
                  THEN FALSE
                  ELSE verify_raises_from(ch, hp, id_number, i + 1)

\* ---------------------------------------------------------------- inputs
\* the payloads callers build by hand (main.py) and others they may pass
AlicePayload ==
  PyDict(<< <<"type", "identity">>, <<"name", "Alice">>,
            <<"id_number", "ID12345">>, <<"public_key", "AlicePublicKey">> >>)

BobPayload ==
  PyDict(<< <<"type", "identity">>, <<"name", "Bob">>,
            <<"id_number", "ID67890">>, <<"public_key", "BobPublicKey">> >>)

\* a second record under Alice's id_number
MalloryPayload ==
  PyDict(<< <<"type", "identity">>, <<"name", "Mallory">>,
            <<"id_number", "ID12345">>, <<"public_key", "MalloryPublicKey">> >>)

NotePayload == PyStr("note")

Payloads == {AlicePayload, BobPayload, MalloryPayload, NotePayload, PySet}

People == { <<"Alice", "ID12345", "AlicePublicKey">>,
            <<"Bob", "ID67890", "BobPublicKey">> }

UUIDs == {"uuid-a"}

IdNumbers == {"ID12345", "ID67890", "ID99999"}

\* ---------------------------------------------------------------- operations
\* mutant: the block is appended before hash_block is called, so a payload
\* that cannot be serialized leaves a block without hash in the chain
CallCreateBlock_append_first(op, key, hp, timestamp, ref) ==
  /\ IF json_raises(hp[ref])
       THEN /\ heap' = hp
            /\ chain' = Append(chain, Block(Len(chain) + 1,
                                            chain[Len(chain)].hash,
                                            timestamp, ref, <<>>))
            /\ ret' = Ret(op, hp[ref].kind, key, "TypeError", 0, NoBlock)
       ELSE /\ heap' = hp
            /\ chain' = create_block(chain, hp, timestamp, ref)
            /\ ret' = Ret(op, hp[ref].kind, key, "", ref,
                          new_block(chain, hp, timestamp, ref))
  /\ UNCHANGED <<calls, hashed, platform>>

\* self.create_block(hp[ref]) called as operation op: hash_block raises before
\* anything is stored when the payload cannot be serialized
CallCreateBlock(op, key, hp, timestamp, ref) ==
  /\ IF json_raises(hp[ref])
       THEN /\ UNCHANGED <<chain, heap>>
            /\ ret' = Ret(op, hp[ref].kind, key, "TypeError", 0, NoBlock)
       ELSE /\ heap' = hp
            /\ chain' = create_block(chain, hp, timestamp, ref)
            /\ ret' = Ret(op, hp[ref].kind, key, "", ref,
                          new_block(chain, hp, timestamp, ref))
  /\ UNCHANGED <<calls, hashed, platform>>

\* bc.create_block(payload) with a payload object the caller has just built
AppendPayload(p, t) ==
  /\ Len(chain) < MaxChain
  /\ CallCreateBlock("create_block", "", Append(heap, p), t, Len(heap) + 1)

\* bc.create_genesis_block() called again on the constructed ledger
CreateGenesisBlock(t) ==
  /\ Len(chain) < MaxChain
  /\ CallCreateBlock("create_genesis_block", "", Append(heap, genesis_data), t,
                     Len(heap) + 1)

\* create_identity(name, id_number, public_key).to_dict() appended to the ledger
RegisterIdentity(person, uuid, t) ==
  /\ Len(chain) < MaxChain
  /\ CallCreateBlock("register_identity", person[2],
                     Append(heap, to_dict(uuid, person[1], person[2], person[3])),
                     t, Len(heap) + 1)

\* verify_identity(bc, id_number)
VerifyIdentity(id_number) ==
  /\ ret' = IF verify_raises_from(chain, heap, id_number, 1)
              THEN Ret("verify_identity", "", id_number, "AttributeError",
                       0, NoBlock)
              ELSE Ret("verify_identity", "", id_number, "",
                       verify_identity(chain, heap, id_number), NoBlock)
  /\ UNCHANGED <<chain, heap, calls, hashed, platform>>

Next ==
  \/ \E p \in Payloads, t \in Times : AppendPayload(p, t)
  \/ \E t \in Times : CreateGenesisBlock(t)
  \/ \E person \in People, uuid \in UUIDs, t \in Times :
       RegisterIdentity(person, uuid, t)
  \/ \E id_number \in IdNumbers : VerifyIdentity(id_number)

Spec == Init /\ [][Next]_vars

\* ---------------------------------------------------------------- callers
\* Block stores the payload object it is handed and verify_identity returns
\* the stored object, so a caller can write to a payload that is in the chain.

\* identity["name"] = "Eve" on a dict the caller passed to create_block
MutatePassedPayload(ref) ==
  /\ ref \in 2..Len(heap)
  /\ heap[ref].kind = "dict"
  /\ DictGet(heap[ref], "type") # "genesis"
  /\ heap' = [heap EXCEPT ![ref] = DictSet(@, "name", "Eve")]
  /\ ret' = Ret("setitem", "dict", "name", "", ref, NoBlock)
  /\ UNCHANGED <<chain, calls, hashed, platform>>

\* record = verify_identity(bc, id_number); record["public_key"] = "EveKey"
MutateReturnedPayload ==
  /\ ret.op = "verify_identity"
  /\ ret.obj # 0
  /\ heap' = [heap EXCEPT ![ret.obj] = DictSet(@, "public_key", "EveKey")]
  /\ ret' = Ret("setitem", "dict", "public_key", "", ret.obj, NoBlock)
  /\ UNCHANGED <<chain, calls, hashed, platform>>

NextAlias ==
  \/ Next
  \/ \E ref \in DOMAIN heap : MutatePassedPayload(ref)
  \/ MutateReturnedPayload

SpecAlias == Init /\ [][NextAlias]_vars

\* the operations that write to the ledger, without the queries
NextLedger ==
  \/ \E p \in Payloads, t \in Times : AppendPayload(p, t)
  \/ \E t \in Times : CreateGenesisBlock(t)
  \/ \E person \in People, uuid \in UUIDs, t \in Times :
       RegisterIdentity(person, uuid, t)

SpecLedger == Init /\ [][NextLedger]_vars

\* ---------------------------------------------------------------- registry calls
\* create_identity arguments, with an empty name and an empty id_number
RegistryInputs ==
  People \cup { <<"", "ID12345", "AlicePublicKey">>,
                <<"Alice", "", "AlicePublicKey">> }

\* create_identity(name, id_number, public_key) alone: Identity.__init__ only
\* assigns its arguments, and the Identity object is handed to the caller
CreateIdentity(person, uuid) ==
  /\ ret' = Ret("create_identity", "Identity", person[2], "", 0, NoBlock)
  /\ UNCHANGED <<chain, heap, calls, hashed, platform>>

NextRegistry ==
  \/ Next
  \/ \E person \in RegistryInputs, uuid \in UUIDs : CreateIdentity(person, uuid)
  \/ \E person \in RegistryInputs, uuid \in UUIDs, t \in Times :
       RegisterIdentity(person, uuid, t)

SpecRegistry == Init /\ [][NextRegistry]_vars

\* ---------------------------------------------------------------- threads
\* create_block run line by line by two threads on one Blockchain, with
\* nothing that keeps one call from running between the lines of another.
ThreadPayloads == {AlicePayload, BobPayload, PySet}

Finished(th) == calls[th].pc \in {"idle", "returned", "raised"}

\* mutant: the length read at line 23 without the + 1
next_index_zero_based(ch) == Len(ch)

\* line 23: len(self.chain) + 1
next_index(ch) == Len(ch) + 1

\* mutant: the previous_hash of the last block is taken for its hash
last_hash_previous(ch) ==
  IF ch # <<>> THEN ch[Len(ch)].previous_hash ELSE ZeroHash

\* line 25: self.chain[-1].hash if self.chain else '0'
last_hash(ch) == IF ch # <<>> THEN ch[Len(ch)].hash ELSE ZeroHash

\* mutant: the block is appended only if its index is still the next one
append_block_if_next(ch, block) ==
  IF block.index = Len(ch) + 1 THEN Append(ch, block) ELSE ch

\* line 28: self.chain.append(block)
append_block(ch, block) == Append(ch, block)

\* a thread calls bc.create_block(p) with a payload object it has just built
Enter(th, p) ==
  /\ Finished(th)
  /\ Len(heap) < MaxChain
  /\ heap' = Append(heap, p)
  /\ calls' = [calls EXCEPT ![th] = Frame("23", 0, 0, <<>>, <<>>, Len(heap) + 1)]
  /\ UNCHANGED <<chain, ret, hashed, platform>>

Line23(th) ==
  /\ calls[th].pc = "23"
  /\ calls' = [calls EXCEPT ![th].pc = "24", ![th].index = next_index(chain)]
  /\ UNCHANGED <<chain, heap, ret, hashed, platform>>

Line24(th, t) ==
  /\ calls[th].pc = "24"
  /\ calls' = [calls EXCEPT ![th].pc = "25", ![th].timestamp = t]
  /\ UNCHANGED <<chain, heap, ret, hashed, platform>>

\* mutant: the block is appended at line 25, before its hash is computed
Line25_publish_early(th) ==
  /\ calls[th].pc = "25"
  /\ calls' = [calls EXCEPT ![th].pc = "26",
                            ![th].previous_hash = last_hash(chain)]
  /\ chain' = Append(chain, Block(calls[th].index, last_hash(chain),
                                  calls[th].timestamp, calls[th].ref, <<>>))
  /\ UNCHANGED <<heap, ret, hashed, platform>>

Line25(th) ==
  /\ calls[th].pc = "25"
  /\ calls' = [calls EXCEPT ![th].pc = "26",
                            ![th].previous_hash = last_hash(chain)]
  /\ UNCHANGED <<chain, heap, ret, hashed, platform>>

\* line 26 (hash_block, which may raise) and line 27 (the Block is built)
Line26(th) ==
  /\ calls[th].pc = "26"
  /\ LET f == calls[th]
     IN  IF json_raises(heap[f.ref])
           THEN /\ calls' = [calls EXCEPT ![th].pc = "raised"]
                /\ ret' = Ret("create_block", heap[f.ref].kind, "",
                              "TypeError", 0, NoBlock)
           ELSE /\ calls' = [calls EXCEPT ![th].pc = "28",
                               ![th].hash = hash_block(f.index, f.previous_hash,
                                                       f.timestamp, heap[f.ref])]
                /\ UNCHANGED ret
  /\ UNCHANGED <<chain, heap, hashed, platform>>

\* lines 28 and 29: the block is appended and returned
Line28(th) ==
  /\ calls[th].pc = "28"
  /\ LET f == calls[th]
         block == Block(f.index, f.previous_hash, f.timestamp, f.ref, f.hash)
     IN  /\ chain' = append_block(chain, block)
         /\ ret' = Ret("create_block", heap[f.ref].kind, "", "", f.ref, block)
  /\ calls' = [calls EXCEPT ![th].pc = "returned"]
  /\ UNCHANGED <<heap, hashed, platform>>

Lines(th) ==
  \/ Line23(th)
  \/ \E t \in Times : Line24(th, t)
  \/ Line25(th)
  \/ Line26(th)
  \/ Line28(th)

NextConc ==
  \/ \E th \in Threads, p \in ThreadPayloads : Enter(th, p)
  \/ \E th \in Threads : Lines(th)

SpecConc == Init /\ [][NextConc]_vars

\* the single-writer rule: a call begins only when no other call is running
EnterSerial(th, p) ==
  /\ \A other \in Threads : Finished(other)
  /\ Enter(th, p)

NextSerial ==
  \/ \E th \in Threads, p \in ThreadPayloads : EnterSerial(th, p)
  \/ \E th \in Threads : Lines(th)

SpecSerial == Init /\ [][NextSerial]_vars

\* a reader calls verify_identity between any two lines of a create_block call
NextReader ==
  \/ NextSerial
  \/ \E id_number \in IdNumbers : VerifyIdentity(id_number)

SpecReader == Init /\ [][NextReader]_vars

\* ---------------------------------------------------------------- hash_block
\* hash_block called directly on payloads the caller has built: the same
\* key/value pairs inserted in different orders, at the top level and inside
\* a nested dict, a payload with another nested value, and a set.
MaxHashed == 2

AliceNested ==
  PyDict(<< <<"type", "identity">>,
            <<"message", "<dict>",
              << <<"name", "Alice">>, <<"id_number", "ID12345">> >> >> >>)

AliceNestedInner ==
  PyDict(<< <<"type", "identity">>,
            <<"message", "<dict>",
              << <<"id_number", "ID12345">>, <<"name", "Alice">> >> >> >>)

AliceNestedBoth ==
  PyDict(<< <<"message", "<dict>",
              << <<"id_number", "ID12345">>, <<"name", "Alice">> >> >>,
            <<"type", "identity">> >>)

BobNested ==
  PyDict(<< <<"type", "identity">>,
            <<"message", "<dict>",
              << <<"name", "Bob">>, <<"id_number", "ID12345">> >> >> >>)

AliceReordered ==
  PyDict(<< <<"public_key", "AlicePublicKey">>, <<"id_number", "ID12345">>,
            <<"name", "Alice">>, <<"type", "identity">> >>)

HashInputs ==
  {AlicePayload, AliceReordered, AliceNested, AliceNestedInner,
   AliceNestedBoth, BobNested, PySet}

InitHash ==
  \E t \in Times, a, b \in HashInputs :
    /\ heap = <<genesis_data, a, b>>
    /\ chain = create_block(<<>>, heap, t, 1)
    /\ ret = Ret("__init__", "dict", "", "", 1, chain[1])
    /\ calls = [th \in Threads |-> NoCall]
    /\ hashed = <<>>
    /\ NoPlatform

\* bc.hash_block(index, previous_hash, timestamp, data); hashed records the
\* arguments and the digest returned
HashBlock(index, previous_hash, timestamp, ref) ==
  /\ Len(hashed) < MaxHashed
  /\ IF json_raises(heap[ref])
       THEN /\ ret' = Ret("hash_block", heap[ref].kind, "", "TypeError",
                          0, NoBlock)
            /\ UNCHANGED hashed
       ELSE /\ hashed' = Append(hashed,
                           Block(index, previous_hash, timestamp, ref,
                                 hash_block(index, previous_hash, timestamp,
                                            heap[ref])))
            /\ ret' = Ret("hash_block", heap[ref].kind, "", "", ref, NoBlock)
  /\ UNCHANGED <<chain, heap, calls, platform>>

NextHash ==
  \E index \in 1..2, previous_hash \in {ZeroHash, chain[1].hash},
     timestamp \in Times, ref \in 2..Len(heap) :
    HashBlock(index, previous_hash, timestamp, ref)

SpecHash == InitHash /\ [][NextHash]_vars

\* ---------------------------------------------------------------- Identity
\* Identity objects as create_identity builds them, each with the uuid
\* Identity.__init__ draws, and their records appended with create_block.
MaxIdentities == 3

\* the successive values uuid.uuid4() returns: 122 random bits each, taken
\* never to repeat
RandomUUIDs == <<"uuid-a", "uuid-b", "uuid-c", "uuid-d", "uuid-e">>

\* str(uuid.uuid4()) on the n-th call
uuid4(n) == RandomUUIDs[n]

\* mutant: one uuid drawn when the class is defined and shared by all objects
Identity_shared_uuid(n, name, id_number, public_key) ==
  [uuid |-> uuid4(1), name |-> name, id_number |-> id_number,
   public_key |-> public_key]

\* Identity(name, id_number, public_key), the n-th Identity built
Identity(n, name, id_number, public_key) ==
  [uuid |-> uuid4(n), name |-> name, id_number |-> id_number,
   public_key |-> public_key]

\* create_identity(name, id_number, public_key)
NewIdentity(person) ==
  /\ Len(identities) < MaxIdentities
  /\ identities' = Append(identities,
                          Identity(Len(identities) + 1,
                                   person[1], person[2], person[3]))
  /\ ret' = Ret("create_identity", "Identity", person[2], "",
                Len(identities) + 1, NoBlock)
  /\ UNCHANGED <<chain, heap, calls, hashed, users, reports, current_user>>

\* bc.create_block(identity.to_dict()) for an Identity built earlier
AppendIdentity(k, t) ==
  /\ Len(chain) < MaxChain
  /\ CallCreateBlock("create_block", identities[k].id_number,
                     Append(heap, to_dict(identities[k].uuid,
                                          identities[k].name,
                                          identities[k].id_number,
                                          identities[k].public_key)),
                     t, Len(heap) + 1)

NextIdentity ==
  \/ \E person \in People : NewIdentity(person)
  \/ \E k \in DOMAIN identities, t \in Times : AppendIdentity(k, t)

SpecIdentity == Init /\ [][NextIdentity]_vars

\* ---------------------------------------------------------------- users
\* The users table of src/models.py and create_user.  A row keeps the
\* columns the code reads: id, username, email, password_hash, role.
Usernames == {"alice", "bob", "carol"}

Emails == {"alice@drc.cd", "bob@drc.cd", "carol@drc.cd"}

Roles == {"user", "admin", "ministry_official"}

Passwords == {"pw"}

generate_password_hash(password) == <<"pbkdf2", password>>

User(id, username, email, password, role) ==
  [id |-> id, username |-> username, email |-> email,
   password_hash |-> generate_password_hash(password), role |-> role]

\* .first() on an empty result, and the id of nobody
NoUser == User(0, "", "", "", "")

\* User.query.filter_by(username=username).first()
get_user_by_username(table, username) ==
  IF \E i \in DOMAIN table : table[i].username = username
    THEN table[CHOOSE i \in DOMAIN table :
                 /\ table[i].username = username
                 /\ \A j \in 1..(i - 1) : table[j].username # username]
    ELSE NoUser

\* User.query.filter_by(email=email).first()
get_user_by_email(table, email) ==
  IF \E i \in DOMAIN table : table[i].email = email
    THEN table[CHOOSE i \in DOMAIN table :
                 /\ table[i].email = email
                 /\ \A j \in 1..(i - 1) : table[j].email # email]
    ELSE NoUser

\* mutant: only the username is looked up
user_exists_username_only(table, username, email) ==
  get_user_by_username(table, username) # NoUser

\* the test of create_user: a row with this username or with this email
user_exists(table, username, email) ==
  \/ get_user_by_username(table, username) # NoUser
  \/ get_user_by_email(table, email) # NoUser

\* db.session.commit() of a new users row fails on the unique columns
commit_raises(table, row) ==
  \E i \in DOMAIN table :
    \/ table[i].username = row.username
    \/ table[i].email = row.email

\* create_user(username, email, password, ..., role=role)
CreateUser(username, email, password, role) ==
  /\ LET user == User(Len(users) + 1, username, email, password, role)
     IN  IF user_exists(users, username, email)
           THEN /\ ret' = Ret("create_user", "", <<username, email>>,
                              "ValueError", 0, NoBlock)
                /\ UNCHANGED users
           ELSE IF commit_raises(users, user)
             THEN /\ ret' = Ret("create_user", "", <<username, email>>,
                                "IntegrityError", 0, NoBlock)
                  /\ UNCHANGED users
             ELSE /\ users' = Append(users, user)
                  /\ ret' = Ret("create_user", "User", <<username, email>>,
                                "", user.id, NoBlock)
  /\ UNCHANGED <<chain, heap, calls, hashed, identities, reports, current_user>>

NextUsers ==
  \E username \in Usernames, email \in Emails, password \in Passwords,
     role \in Roles :
    CreateUser(username, email, password, role)

SpecUsers == Init /\ [][NextUsers]_vars

\* ---------------------------------------------------------------- reports
\* The routes of src/auth_upload_app.py that create and show reports, with
\* the Flask-Login session: current_user is the id of the logged-in user,
\* 0 for an anonymous requester.  The answer of a route is left in ret.
MaxReports == 2

\* the accounts that register: an owner, an official and an administrator
Accounts == { <<"alice", "alice@drc.cd", "user">>,
              <<"bob", "bob@drc.cd", "ministry_official">>,
              <<"carol", "carol@drc.cd", "admin">> }

Report(id, title, user_id) == [id |-> id, title |-> title, user_id |-> user_id]

NoReport == Report(0, "", 0)

\* what a route answers: kind is "page", "json", "redirect" or "404";
\* body is the report whose fields the answer contains
Response(op, requester, report_id, kind, location, flash, body) ==
  [op |-> op, requester |-> requester, report_id |-> report_id, kind |-> kind,
   location |-> location, flash |-> flash, body |-> body]

\* @login_required for an anonymous requester: login_manager.login_view and
\* login_manager.login_message
Unauthorized(op, report_id) ==
  Response(op, 0, report_id, "redirect", "login",
           "Please log in to access this page.", NoReport)

\* user.check_password(password)
check_password(user, password) ==
  user.password_hash = generate_password_hash(password)

\* mutant: every role but 'user' counts as admin
is_admin_not_plain_user(user) == user.role # "user"

\* User.is_admin()
is_admin(user) == user.role = "admin"

\* the test of view_report and export_report
access_denied(report, user) ==
  report.user_id # user.id /\ ~is_admin(user)

\* POST /register
Register(account, password) ==
  CreateUser(account[1], account[2], password, account[3])

\* POST /login
Login(username, password) ==
  /\ LET user == get_user_by_username(users, username)
     IN  IF user # NoUser /\ check_password(user, password)
           THEN /\ current_user' = user.id
                /\ ret' = Response("login", user.id, 0, "redirect",
                                   "dashboard", "Login successful!", NoReport)
           ELSE /\ UNCHANGED current_user
                /\ ret' = Response("login", current_user, 0, "page", "",
                                   "Invalid username or password", NoReport)
  /\ UNCHANGED <<chain, heap, calls, hashed, identities, users, reports>>

\* GET /logout
Logout ==
  /\ IF current_user = 0
       THEN /\ ret' = Unauthorized("logout", 0)
            /\ UNCHANGED current_user
       ELSE /\ current_user' = 0
            /\ ret' = Response("logout", current_user, 0, "redirect", "login",
                               "You have been logged out.", NoReport)
  /\ UNCHANGED <<chain, heap, calls, hashed, identities, users, reports>>

\* POST /reports/create
CreateReport(title) ==
  /\ Len(reports) < MaxReports
  /\ IF current_user = 0
       THEN /\ ret' = Unauthorized("create_report", 0)
            /\ UNCHANGED reports
       ELSE /\ reports' = Append(reports,
                                 Report(Len(reports) + 1, title, current_user))
            /\ ret' = Response("create_report", current_user,
                               Len(reports) + 1, "redirect", "view_report",
                               "Report created successfully!", NoReport)
  /\ UNCHANGED <<chain, heap, calls, hashed, identities, users, current_user>>

\* the body shared by view_report and export_report: login_required, then
\* get_or_404, then the owner-or-admin test
ReportRoute(op, kind, report_id) ==
  /\ ret' = IF current_user = 0 THEN Unauthorized(op, report_id)
            ELSE IF report_id \notin DOMAIN reports
              THEN Response(op, current_user, report_id, "404", "", "",
                            NoReport)
            ELSE IF access_denied(reports[report_id], users[current_user])
              THEN Response(op, current_user, report_id, "redirect",
                            "list_reports", "Access denied", NoReport)
            ELSE Response(op, current_user, report_id, kind, "", "",
                          reports[report_id])
  /\ UNCHANGED <<chain, heap, calls, hashed, platform>>

\* GET /reports/<report_id>
ViewReport(report_id) == ReportRoute("view_report", "page", report_id)

\* GET /reports/<report_id>/export
ExportReport(report_id) == ReportRoute("export_report", "json", report_id)

NextReports ==
  \/ \E account \in Accounts, password \in Passwords :
       Register(account, password)
  \/ \E username \in Usernames, password \in Passwords \cup {"wrong"} :
       Login(username, password)
  \/ Logout
  \/ \E title \in {"Forest loss 2023"} : CreateReport(title)
  \/ \E report_id \in 1..(MaxReports + 1) : ViewReport(report_id)
  \/ \E report_id \in 1..(MaxReports + 1) : ExportReport(report_id)

SpecReports == Init /\ [][NextReports]_vars

\* ---------------------------------------------------------------- satellite
\* SatelliteAPIClient.get_forest_loss_data of src/satellite_api.py.  The
\* client keeps no state; the outcome of a call is left in ret.

\* two of the entries of DRC_PROVINCE_ADMIN_MAPPING
MappedProvinces == {"Kinshasa", "Nord-Kivu"}

DRC_PROVINCE_ADMIN_MAPPING(province_name) ==
  IF province_name = "Kinshasa" THEN <<"CD-KN", "CD.1">>
  ELSE <<"CD-NK", "CD.6">>

\* province names callers pass: two that are in the mapping, one that is not
Provinces == MappedProvinces \cup {"Atlantis"}

Years == 2020..2023

\* what requests.get, raise_for_status and response.json() can do:
\*   "ConnectionError", "Timeout": requests.get raises a RequestException;
\*   "HTTPError": raise_for_status raises a RequestException;
\*   "object": the body is a JSON object with a 'data' list;
\*   "object_no_data": the body is a JSON object without 'data';
\*   "array": the body is JSON but not an object;
\*   "not_json": the body is not JSON at all.
RequestExceptions == {"ConnectionError", "Timeout", "HTTPError"}

HttpOutcomes ==
  RequestExceptions \cup {"object", "object_no_data", "array", "not_json"}

\* the rows a JSON object body carries under 'data'
GfwRows == << [year |-> 2021, loss_area_ha |-> 1234] >>

\* dict.get(province_name) on the mapping: <<>> stands for None
get_province_admin_code(province_name) ==
  IF province_name \in MappedProvinces
    THEN DRC_PROVINCE_ADMIN_MAPPING(province_name)
    ELSE <<>>

ForestLoss(province, admin_code, gfw_admin_id, year_range, rows, source) ==
  [province |-> province, admin_code |-> admin_code,
   gfw_admin_id |-> gfw_admin_id, year_range |-> year_range,
   forest_loss_data |-> rows, source |-> source]

NoForestLoss == ForestLoss("", "", "", <<>>, <<>>, "")

\* mutant: range(year_range[0], year_range[1]), the end year left out
mock_forest_loss_data_end_exclusive(province_name, admin_code, year_range) ==
  ForestLoss(province_name, admin_code,
             DRC_PROVINCE_ADMIN_MAPPING(province_name)[2], year_range,
             [i \in 1..(year_range[2] - year_range[1]) |->
                [year |-> year_range[1] + i - 1,
                 loss_area_ha |-> 1000 + (i - 1) * 50]],
             "Mock Data (Development)")

\* _get_mock_forest_loss_data: one row per year of
\* range(year_range[0], year_range[1] + 1)
mock_forest_loss_data(province_name, admin_code, year_range) ==
  ForestLoss(province_name, admin_code,
             DRC_PROVINCE_ADMIN_MAPPING(province_name)[2], year_range,
             [i \in 1..(year_range[2] - year_range[1] + 1) |->
                [year |-> year_range[1] + i - 1,
                 loss_area_ha |-> 1000 + (i - 1) * 50]],
             "Mock Data (Development)")

\* the outcome of a get_forest_loss_data call
Outcome(province, year_range, http, exc, result) ==
  [op |-> "get_forest_loss_data", province |-> province,
   year_range |-> year_range, http |-> http, exc |-> exc, result |-> result]

\* get_forest_loss_data(province_name, year_range) when the request does
\* http.  response.json() on a body that is not JSON raises a
\* RequestException in some releases of requests and a plain ValueError in
\* others: json_error_caught says which.
get_forest_loss_data(province_name, year_range, http, json_error_caught) ==
  LET admin_info == get_province_admin_code(province_name)
      mock == mock_forest_loss_data(province_name, admin_info[1], year_range)
  IN  IF admin_info = <<>>
        THEN Outcome(province_name, year_range, http, "ValueError",
                     NoForestLoss)
      ELSE IF http \in RequestExceptions
        THEN Outcome(province_name, year_range, http, "", mock)
      ELSE IF http = "not_json"
        THEN IF json_error_caught
               THEN Outcome(province_name, year_range, http, "", mock)
               ELSE Outcome(province_name, year_range, http, "ValueError",
                            NoForestLoss)
      ELSE IF http = "array"
        THEN Outcome(province_name, year_range, http, "AttributeError",
                     NoForestLoss)
      ELSE Outcome(province_name, year_range, http, "",
                   ForestLoss(province_name, admin_info[1], admin_info[2],
                              year_range,
                              IF http = "object" THEN GfwRows ELSE <<>>,
                              "Global Forest Watch"))

GetForestLossData(province_name, year_range, http, json_error_caught) ==
  /\ ret' = get_forest_loss_data(province_name, year_range, http,
                                 json_error_caught)
  /\ UNCHANGED <<chain, heap, calls, hashed, platform>>

NextSatellite ==
  \E province_name \in Provinces, start \in Years, end \in Years,
     http \in HttpOutcomes, json_error_caught \in BOOLEAN :
    GetForestLossData(province_name, <<start, end>>, http, json_error_caught)

SpecSatellite == Init /\ [][NextSatellite]_vars

\* ---------------------------------------------------------------- claims
CreateOps == {"create_block", "create_genesis_block", "register_identity"}

Last(ch) == ch[Len(ch)]

\* C1: the first block's previous_hash is "0" and every later block's
\* previous_hash is the hash of the block before it.
C1_ChainLinkage ==
  /\ chain[1].previous_hash = ZeroHash
  /\ \A i \in 2..Len(chain) : chain[i].previous_hash = chain[i - 1].hash

C1_Witness ==
  /\ Len(chain) >= 3
  /\ chain[3].previous_hash = chain[2].hash
  /\ chain[2].hash # chain[1].hash

\* C2: every block's stored hash is hash_block of its index, previous_hash,
\* timestamp and data.
C2_HashConsistency ==
  \A i \in 1..Len(chain) :
    chain[i].hash = hash_block(chain[i].index, chain[i].previous_hash,
                               chain[i].timestamp, heap[chain[i].data])

C2_Witness ==
  /\ Len(chain) >= 2
  /\ ret.op = "create_block"
  /\ ret.exc = ""
  /\ Last(chain).hash =
       hash_block(Len(chain), chain[Len(chain) - 1].hash,
                  Last(chain).timestamp, heap[ret.obj])

\* C3: construction succeeds and leaves exactly the genesis block: index 1,
\* previous_hash "0", data {type: genesis, message: Genesis Block}, and the
\* hash of those fields.
C3_Genesis ==
  ret.op = "__init__" =>
    /\ ret.exc = ""
    /\ Len(chain) = 1
    /\ chain[1].index = 1
    /\ chain[1].previous_hash = ZeroHash
    /\ PyEq(heap[chain[1].data],
            PyDict(<< <<"message", "Genesis Block">>, <<"type", "genesis">> >>))
    /\ chain[1].hash = hash_block(1, ZeroHash, chain[1].timestamp, heap[chain[1].data])

C3_Witness ==
  /\ ret.op = "__init__"
  /\ Len(chain) = 1
  /\ DictGet(heap[chain[1].data], "type") = "genesis"

C5_IndexIsPosition ==
  \A i \in 1..Len(chain) : chain[i].index = i

C5_Witness ==
  /\ Len(chain) >= 3
  /\ ret.op = "register_identity"
  /\ chain[Len(chain)].index = Len(chain)

\* C6: no step changes or moves a block already in the chain or the payload
\* it holds, the chain never gets shorter, and a create_block call with a
\* JSON-like payload leaves the old chain with exactly one block added at
\* the end.
C6_AppendOnly ==
  [][/\ Len(chain') >= Len(chain)
     /\ \A i \in 1..Len(chain) :
          /\ chain'[i] = chain[i]
          /\ heap'[chain[i].data] = heap[chain[i].data]
     /\ (ret'.op \in CreateOps /\ ret'.kind \in {"dict", "str"}) =>
          chain' = Append(chain, ret'.block)]_vars

C6_Witness ==
  /\ Len(chain) = MaxChain
  /\ ret.op = "create_genesis_block"
  /\ ret.block = chain[MaxChain]
  /\ chain[1].index = 1

\* C7: a block in the chain never changes: its five fields and its payload
\* stay as they were and its stored hash stays the hash_block of its fields,
\* also when a caller writes to the payload object it passed to create_block
\* or to the one verify_identity returned.
C7_BlockImmutable ==
  [][\A i \in 1..Len(chain) :
       /\ chain'[i] = chain[i]
       /\ PyEq(heap'[chain'[i].data], heap[chain[i].data])
       /\ chain'[i].hash =
            hash_block(chain'[i].index, chain'[i].previous_hash,
                       chain'[i].timestamp, heap'[chain'[i].data])]_vars

\* the walk validate() is described as doing, from position i: the first
\* position whose stored hash is not the recomputed hash or whose
\* previous_hash is not the hash of the block before it; 0 when there is none
RECURSIVE first_invalid_from(_, _, _)
first_invalid_from(ch, hp, i) ==
  IF i > Len(ch) THEN 0
  ELSE IF \/ ch[i].hash # hash_block(ch[i].index, ch[i].previous_hash,
                                     ch[i].timestamp, hp[ch[i].data])
          \/ (i > 1 /\ ch[i].previous_hash # ch[i - 1].hash)
         THEN i
         ELSE first_invalid_from(ch, hp, i + 1)

first_invalid(ch, hp) == first_invalid_from(ch, hp, 1)

TamperIndexes(ch) == {0, 1, Len(ch), Len(ch) + 1}

TamperHashes(ch) == {ZeroHash, <<"forged">>, ch[1].hash, Last(ch).hash}

TamperTimes == Times \cup {0}

TamperData(d) ==
  {AlicePayload, NotePayload, genesis_data, DictSet(d, "name", "Eve")}

\* a copy of the chain with one field of block i changed finds block i first
TamperFound(i) ==
  /\ \A v \in TamperIndexes(chain) \ {chain[i].index} :
       first_invalid([chain EXCEPT ![i].index = v], heap) = i
  /\ \A v \in TamperHashes(chain) \ {chain[i].previous_hash} :
       first_invalid([chain EXCEPT ![i].previous_hash = v], heap) = i
  /\ \A v \in TamperTimes \ {chain[i].timestamp} :
       first_invalid([chain EXCEPT ![i].timestamp = v], heap) = i
  /\ \A v \in TamperHashes(chain) \ {chain[i].hash} :
       first_invalid([chain EXCEPT ![i].hash = v], heap) = i
  /\ \A v \in TamperData(heap[chain[i].data]) :
       ~PyEq(v, heap[chain[i].data]) =>
         first_invalid(chain, [heap EXCEPT ![chain[i].data] = v]) = i

C10_RegisterThenVerify ==
  (/\ ret.op = "register_identity"
   /\ ret.exc = ""
   /\ verify_identity(SubSeq(chain, 1, Len(chain) - 1), heap, ret.key) = 0)
  => /\ verify_identity(chain, heap, ret.key) = ret.obj
     /\ \E person \in People :
          /\ person[2] = ret.key
          /\ DictGet(heap[ret.obj], "name") = person[1]
          /\ DictGet(heap[ret.obj], "id_number") = person[2]
          /\ DictGet(heap[ret.obj], "public_key") = person[3]

\* an identity record carrying external id e
IsIdentityRecord(d, e) ==
  /\ d.kind = "dict"
  /\ DictGet(d, "type") = "identity"
  /\ DictGet(d, "id_number") = e

\* the positions of the blocks that hold an identity record carrying e
Matches(e) ==
  {i \in 1..Len(chain) : IsIdentityRecord(heap[chain[i].data], e)}

\* C11: verify_identity(e) returns the payload of the lowest-position block
\* holding an identity record with id_number e: never the genesis payload,
\* an untagged payload or one with another id, and the first of several.
C11_FirstMatch ==
  ret.op = "verify_identity" =>
    /\ \A i \in Matches(ret.key) :
         (\A j \in Matches(ret.key) : i <= j) => ret.obj = chain[i].data
    /\ ret.obj # 0 =>
         /\ IsIdentityRecord(heap[ret.obj], ret.key)
         /\ ret.obj # chain[1].data

C11_Witness ==
  /\ ret.op = "verify_identity"
  /\ Len(chain) = 4
  /\ Matches(ret.key) = {3, 4}
  /\ ~PyEq(heap[chain[3].data], heap[chain[4].data])
  /\ ret.obj = chain[3].data
  /\ DictGet(heap[chain[2].data], "id_number") = ret.key

\* C12: verify_identity(e) returns None exactly when no block holds an
\* identity record with id_number e, and it returns without raising.
C12_NoneIffNoMatch ==
  ret.op = "verify_identity" =>
    /\ ret.exc = ""
    /\ (ret.obj = 0 <=> Matches(ret.key) = {})

C12_Witness ==
  /\ ret.op = "verify_identity"
  /\ ret.obj = 0
  /\ ret.key = "ID67890"
  /\ Len(chain) = 4
  /\ Matches("ID12345") # {}
  /\ \E i \in 2..4 : heap[chain[i].data].kind = "str"
  /\ \E i \in 2..4 : /\ DictGet(heap[chain[i].data], "id_number") = "ID67890"
                     /\ DictGet(heap[chain[i].data], "type") = "None"

RegistryOps == {"create_identity", "register_identity"}

\* C13: registering an identity appends exactly one block whose data is the
\* constructed record, tagged with type "identity" and carrying its
\* generated uuid, and returns that record.
C13_RegisterAppendsTaggedRecord ==
  [][ret'.op \in RegistryOps =>
       /\ Len(chain') = Len(chain) + 1
       /\ ret'.obj = Last(chain').data
       /\ DictGet(heap'[Last(chain').data], "type") = "identity"
       /\ DictGet(heap'[Last(chain').data], "uuid") # "None"]_vars

\* C14: registering with an empty name or an empty id_number fails with a
\* ValidationError and leaves the ledger as it was.
C14_EmptyFieldRejected ==
  [][(/\ ret'.op \in RegistryOps
      /\ \/ ret'.key = ""
         \/ (ret'.obj # 0 /\ DictGet(heap'[ret'.obj], "name") = ""))
     => /\ ret'.exc = "ValidationError"
        /\ chain' = chain
        /\ heap' = heap]_vars

\* two blocks of the chain that claim the same index and the same
\* previous_hash, the later one not linked to the block before it
Fork(ch) ==
  \E i, j \in DOMAIN ch :
    /\ i < j
    /\ ch[i].index = ch[j].index
    /\ ch[i].previous_hash = ch[j].previous_hash
    /\ ch[j].previous_hash # ch[j - 1].hash

\* C15: when two create_block calls both read the chain length and the last
\* hash before either appends (they hold the same index and previous_hash),
\* both blocks end up in the chain: a fork that breaks the chain linkage.
C15_InterleavedAppendsFork ==
  \A a, b \in Threads :
    (/\ a # b
     /\ calls[a].pc = "returned"
     /\ calls[b].pc = "returned"
     /\ calls[a].index = calls[b].index
     /\ calls[a].previous_hash = calls[b].previous_hash)
    => /\ Fork(chain)
       /\ \E i, j \in DOMAIN chain :
            /\ i # j
            /\ chain[i].data = calls[a].ref
            /\ chain[j].data = calls[b].ref

C15_Witness ==
  /\ calls["t1"].pc = "returned"
  /\ calls["t2"].pc = "returned"
  /\ Len(chain) = 3
  /\ chain[2].index = 2
  /\ chain[3].index = 2
  /\ chain[2].previous_hash = chain[1].hash
  /\ chain[3].previous_hash = chain[1].hash
  /\ chain[2].hash # chain[3].hash

\* C16: when every create_block call runs to completion before the next one
\* begins, no two blocks of the chain have the same previous_hash or the
\* same index, whichever thread makes the calls.
C16_NoForkWhenSerial ==
  \A i, j \in DOMAIN chain :
    i # j => /\ chain[i].index # chain[j].index
             /\ chain[i].previous_hash # chain[j].previous_hash

C16_Witness ==
  /\ Len(chain) = MaxChain
  /\ chain[2].data # 0
  /\ calls["t1"].pc = "returned"
  /\ calls["t2"].pc = "returned"
  /\ calls["t1"].index # calls["t2"].index
  /\ chain[calls["t1"].index].data = calls["t1"].ref
  /\ chain[calls["t2"].index].data = calls["t2"].ref

\* C17: in every reachable state the timestamp of block i is greater than or
\* equal to the timestamp of block i-1, for every position i > 1.
C17_TimestampsNonDecreasing ==
  \A i \in 2..Len(chain) : chain[i].timestamp >= chain[i - 1].timestamp

\* C18: hash_block gives the same digest for two payloads that hold the same
\* key/value pairs inserted in different orders, at every nesting level,
\* when index, previous_hash and timestamp are equal; two calls on identical
\* inputs give the same digest.
C18_CanonicalSerialization ==
  \A i, j \in DOMAIN hashed :
    (/\ hashed[i].index = hashed[j].index
     /\ hashed[i].previous_hash = hashed[j].previous_hash
     /\ hashed[i].timestamp = hashed[j].timestamp
     /\ PyEq(heap[hashed[i].data], heap[hashed[j].data]))
    => hashed[i].hash = hashed[j].hash

C18_Witness ==
  /\ Len(hashed) = 2
  /\ heap[hashed[1].data] = AliceNested
  /\ heap[hashed[2].data] = AliceNestedBoth
  /\ hashed[1].index = hashed[2].index
  /\ hashed[1].previous_hash = hashed[2].previous_hash
  /\ hashed[1].timestamp = hashed[2].timestamp
  /\ hashed[1].hash = hashed[2].hash

IsIdentityPayload(d) == d.kind = "dict" /\ DictGet(d, "type") = "identity"

\* the chain that results from the genesis block of ch when the payloads of
\* blocks 2 and 3 are appended in the other order, at the same two times
Reversed(ch, hp) ==
  create_block(create_block(<<ch[1]>>, hp, ch[2].timestamp, ch[3].data),
               hp, ch[3].timestamp, ch[2].data)

\* C19: from the same genesis block and with the same timestamps, appending
\* two different identity payloads A then B and B then A gives different
\* hashes at position 2 and at position 3; the same payload hashes
\* differently at position 2 and at position 3.
C19_OrderSensitivity ==
  (/\ Len(chain) >= 3
   /\ IsIdentityPayload(heap[chain[2].data])
   /\ IsIdentityPayload(heap[chain[3].data])
   /\ ~PyEq(heap[chain[2].data], heap[chain[3].data]))
  => /\ chain[2].hash # Reversed(chain, heap)[2].hash
     /\ chain[3].hash # Reversed(chain, heap)[3].hash
     /\ chain[2].hash # Reversed(chain, heap)[3].hash
     /\ chain[3].hash # Reversed(chain, heap)[2].hash

C19_Witness ==
  /\ Len(chain) = 3
  /\ ret.op = "create_block"
  /\ PyEq(heap[chain[2].data], AlicePayload)
  /\ PyEq(heap[chain[3].data], BobPayload)
  /\ chain[2].timestamp = chain[3].timestamp
  /\ PyEq(heap[Reversed(chain, heap)[2].data], BobPayload)
  /\ Reversed(chain, heap)[2].previous_hash = chain[2].previous_hash
  /\ Reversed(chain, heap)[2].hash # chain[2].hash

\* C20 as stated: create_block never fails, whatever payload the caller
\* supplies; every call completes and returns a block.
C20_NeverFails ==
  ret.op \in CreateOps => /\ ret.exc = ""
                          /\ ret.block # NoBlock

\* C20, amended: create_block completes and returns the block it appended
\* for every payload json.dumps can serialize, and raises TypeError for a
\* payload json.dumps cannot serialize (a set).
C20_FailsOnlyOnUnserializable ==
  ret.op \in CreateOps =>
    /\ ret.kind \in {"dict", "str"} => /\ ret.exc = ""
                                       /\ ret.block = Last(chain)
                                       /\ ret.block.data = ret.obj
                                       /\ heap[ret.obj].kind = ret.kind
    /\ ret.kind = "set" => /\ ret.exc = "TypeError"
                           /\ ret.block = NoBlock
    /\ ret.kind \in {"dict", "str", "set"}

C20_Witness ==
  /\ ret.op = "create_block"
  /\ ret.kind = "str"
  /\ ret.exc = ""
  /\ Len(chain) >= 2
  /\ ret.block = Last(chain)
  /\ heap[ret.block.data] = NotePayload

\* the positions of the blocks whose payload carries the id_number e
WithId(ch, hp, e) ==
  {i \in DOMAIN ch : DictGet(hp[ch[i].data], "id_number") = e}

\* C21: a record whose id_number already occurs in the ledger is not
\* rejected: the call appends one further block, and the earlier blocks
\* with that id_number stay where they were, the new one after them.
C21_DuplicateIdAppended ==
  [][(/\ ret'.op \in {"create_block", "register_identity"}
      /\ ret'.kind = "dict"
      /\ Len(heap') = Len(heap) + 1
      /\ WithId(chain, heap, DictGet(heap'[Len(heap')], "id_number")) # {}
      /\ DictGet(heap'[Len(heap')], "id_number") # "None")
     => LET e == DictGet(heap'[Len(heap')], "id_number")
        IN  /\ ret'.exc = ""
            /\ Len(chain') = Len(chain) + 1
            /\ \A i \in DOMAIN chain : chain'[i] = chain[i]
            /\ \A i \in DOMAIN heap : heap'[i] = heap[i]
            /\ chain'[Len(chain')].data = Len(heap')
            /\ WithId(chain', heap', e)
                 = WithId(chain, heap, e) \cup {Len(chain')}]_vars

C21_Witness ==
  /\ Len(chain) = 4
  /\ ret.op = "register_identity"
  /\ ret.exc = ""
  /\ WithId(chain, heap, "ID12345") = {2, 3, 4}
  /\ PyEq(heap[chain[2].data], AlicePayload)
  /\ PyEq(heap[chain[3].data], MalloryPayload)
  /\ DictGet(heap[chain[4].data], "uuid") = "uuid-a"

\* C22: any two identity records the registry creates carry different uuid
\* values, also when name, id_number and public_key are the same; the uuid
\* is fixed when the Identity is built and is the same at whatever index
\* its record is appended.
C22_UniqueLocalId ==
  /\ \A i, j \in DOMAIN identities :
       i # j => identities[i].uuid # identities[j].uuid
  /\ \A i \in 2..Len(chain) :
       \E k \in DOMAIN identities :
         /\ DictGet(heap[chain[i].data], "uuid") = identities[k].uuid
         /\ DictGet(heap[chain[i].data], "name") = identities[k].name
         /\ DictGet(heap[chain[i].data], "id_number") = identities[k].id_number
  /\ \A i, j \in 2..Len(chain) :
       (DictGet(heap[chain[i].data], "uuid")
          = DictGet(heap[chain[j].data], "uuid"))
       => PyEq(heap[chain[i].data], heap[chain[j].data])

C22_Witness ==
  /\ Len(identities) = 2
  /\ identities[1].name = identities[2].name
  /\ identities[1].id_number = identities[2].id_number
  /\ identities[1].public_key = identities[2].public_key
  /\ identities[1].uuid # identities[2].uuid
  /\ Len(chain) = 4
  /\ DictGet(heap[chain[2].data], "uuid") = identities[1].uuid
  /\ DictGet(heap[chain[3].data], "uuid") = identities[2].uuid
  /\ DictGet(heap[chain[4].data], "uuid") = identities[1].uuid

\* C23: the block create_block returns is the block now at the last position
\* of the chain, with the same index, previous_hash, timestamp, data and
\* hash, and it is the block this call created.
C23_ReturnsLastBlock ==
  [][(ret'.op \in CreateOps /\ ret'.exc = "")
     => /\ ret'.block = chain'[Len(chain')]
        /\ Len(chain') = Len(chain) + 1
        /\ ret'.block.index = Len(chain')
        /\ ret'.block.previous_hash = chain[Len(chain)].hash
        /\ ret'.block.data = Len(heap')
        /\ ret'.block.hash
             = hash_block(ret'.block.index, ret'.block.previous_hash,
                          ret'.block.timestamp, heap'[ret'.block.data])]_vars

C23_Witness ==
  /\ ret.op = "create_block"
  /\ ret.exc = ""
  /\ ret.kind = "dict"
  /\ Len(chain) = 3
  /\ ret.block = chain[3]
  /\ ret.block.index = 3
  /\ ret.block.previous_hash = chain[2].hash
  /\ PyEq(heap[ret.block.data], BobPayload)

\* a block of the chain with all five fields set: its index is its position,
\* its previous_hash the hash before it, its hash the hash of its fields
Complete(ch, hp, i) ==
  /\ ch[i].index = i
  /\ ch[i].timestamp \in Times
  /\ ch[i].data \in DOMAIN hp
  /\ ch[i].previous_hash = IF i = 1 THEN ZeroHash ELSE ch[i - 1].hash
  /\ ch[i].hash = hash_block(ch[i].index, ch[i].previous_hash,
                             ch[i].timestamp, hp[ch[i].data])

InCall(th) == calls[th].pc \in {"23", "24", "25", "26", "28"}

\* C24: at every step of a create_block call the chain a reader sees holds
\* complete blocks only: before the append the block of the call is not in
\* the chain at all, after it the block is there with all five fields set.
C24_NoPartialBlockVisible ==
  /\ \A i \in DOMAIN chain : Complete(chain, heap, i)
  /\ \A th \in Threads :
       /\ InCall(th) => \A i \in DOMAIN chain : chain[i].data # calls[th].ref
       /\ calls[th].pc = "returned"
            => \E i \in DOMAIN chain : /\ chain[i].data = calls[th].ref
                                       /\ chain[i].hash = calls[th].hash
  /\ (ret.op = "verify_identity" /\ ret.obj # 0)
       => \E i \in DOMAIN chain : chain[i].data = ret.obj

C24_Witness ==
  /\ calls["t1"].pc = "28"
  /\ calls["t1"].hash # <<>>
  /\ heap[calls["t1"].ref] = AlicePayload
  /\ Len(chain) = 2
  /\ heap[chain[2].data] = BobPayload
  /\ ret.op = "verify_identity"
  /\ ret.key = "ID12345"
  /\ ret.obj = 0

\* C25: when hash_block raises inside create_block the caller gets the
\* error, the chain and its payloads are exactly as before, and the next
\* call that succeeds appends at index = length + 1 with the hash of the
\* last block as previous_hash.
C25_FailedHashLeavesChain ==
  [][/\ (ret'.op \in CreateOps /\ ret'.exc # "")
          => /\ ret'.exc = "TypeError"
             /\ ret'.block = NoBlock
             /\ chain' = chain
             /\ heap' = heap
     /\ (ret.op \in CreateOps /\ ret.exc # ""
         /\ ret'.op \in CreateOps /\ ret'.exc = "")
          => /\ Len(chain') = Len(chain) + 1
             /\ chain'[Len(chain')].index = Len(chain) + 1
             /\ chain'[Len(chain')].previous_hash = chain[Len(chain)].hash
             /\ \A i \in DOMAIN chain : chain'[i] = chain[i]]_vars

C25_Witness ==
  /\ ret.op = "create_block"
  /\ ret.kind = "set"
  /\ ret.exc = "TypeError"
  /\ ret.block = NoBlock
  /\ Len(chain) = 2
  /\ Len(heap) = 2
  /\ Complete(chain, heap, 2)

\* C26: after construction the chain is never empty and the sentinel
\* previous_hash "0" occurs in the block at position 1 only; calling
\* create_genesis_block again appends an ordinary block with the genesis
\* payload, linked to the block before it, with index = length + 1.
C26_SentinelOnlyAtGenesis ==
  /\ Len(chain) >= 1
  /\ \A i \in DOMAIN chain : (chain[i].previous_hash = ZeroHash) <=> (i = 1)
  /\ \A i \in DOMAIN chain :
       DictGet(heap[chain[i].data], "type") = "genesis"
       => /\ chain[i].index = i
          /\ i > 1 => chain[i].previous_hash = chain[i - 1].hash
  /\ ret.op = "create_genesis_block"
       => /\ ret.exc = ""
          /\ Len(chain) >= 2
          /\ ret.block.index = Len(chain)
          /\ ret.block.previous_hash = chain[Len(chain) - 1].hash
          /\ PyEq(heap[ret.block.data], heap[chain[1].data])

C26_Witness ==
  /\ ret.op = "create_genesis_block"
  /\ Len(chain) = 3
  /\ DictGet(heap[chain[2].data], "type") = "identity"
  /\ DictGet(heap[chain[3].data], "type") = "genesis"
  /\ chain[3].index = 3
  /\ chain[3].previous_hash = chain[2].hash
  /\ chain[3].previous_hash # ZeroHash

\* C27: verify_identity changes nothing: whether or not it finds a match,
\* the chain has the same length and every block the same five field values
\* and the same payload afterwards; and it raises nothing when blocks hold
\* payloads that are not dictionaries.
C27_VerifyReadOnly ==
  [][ret'.op = "verify_identity"
     => /\ Len(chain') = Len(chain)
        /\ \A i \in DOMAIN chain :
             /\ chain'[i].index = chain[i].index
             /\ chain'[i].previous_hash = chain[i].previous_hash
             /\ chain'[i].timestamp = chain[i].timestamp
             /\ chain'[i].data = chain[i].data
             /\ chain'[i].hash = chain[i].hash
        /\ heap' = heap
        /\ ret'.exc = ""]_vars

C27_Witness ==
  /\ ret.op = "verify_identity"
  /\ ret.exc = ""
  /\ Len(chain) = 3
  /\ heap[chain[2].data] = NotePayload
  /\ heap[chain[3].data] = AlicePayload
  /\ ret.key = "ID12345"
  /\ ret.obj = chain[3].data

\* some stored user has this username or this email
Taken(table, username, email) ==
  \E i \in DOMAIN table :
    table[i].username = username \/ table[i].email = email

\* C28: no two stored users share a username or an email; a create_user call
\* whose username or email is taken raises ValueError and adds no user, and
\* a call with a fresh username and email adds exactly one user.
C28_UniqueUsers ==
  [][/\ \A i, j \in DOMAIN users' :
          i # j => /\ users'[i].username # users'[j].username
                   /\ users'[i].email # users'[j].email
     /\ ret'.op = "create_user"
          => IF Taken(users, ret'.key[1], ret'.key[2])
               THEN /\ ret'.exc = "ValueError"
                    /\ users' = users
               ELSE /\ ret'.exc = ""
                    /\ Len(users') = Len(users) + 1
                    /\ \A i \in DOMAIN users : users'[i] = users[i]
                    /\ users'[Len(users')].username = ret'.key[1]
                    /\ users'[Len(users')].email = ret'.key[2]
                    /\ users'[Len(users')].id = ret'.obj]_vars

C28_Witness ==
  /\ Len(users) = 2
  /\ users[1].username = "alice"
  /\ users[1].email = "alice@drc.cd"
  /\ users[2].username = "bob"
  /\ ret.op = "create_user"
  /\ ret.key = <<"carol", "alice@drc.cd">>
  /\ ret.exc = "ValueError"

ReportOps == {"view_report", "export_report"}

\* C29: view_report and export_report answer with a report's content only
\* when the logged-in requester owns the report or has role admin; any other
\* logged-in requester is redirected with 'Access denied' and gets no data
\* of the report, and an anonymous requester gets none either.
C29_ReportAccessControl ==
  ret.op \in ReportOps =>
    /\ ret.body # NoReport
         => /\ ret.requester \in DOMAIN users
            /\ ret.body = reports[ret.report_id]
            /\ \/ ret.body.user_id = ret.requester
               \/ users[ret.requester].role = "admin"
    /\ (/\ ret.requester \in DOMAIN users
        /\ ret.report_id \in DOMAIN reports)
         => IF \/ reports[ret.report_id].user_id = ret.requester
               \/ users[ret.requester].role = "admin"
              THEN /\ ret.body = reports[ret.report_id]
                   /\ ret.kind \in {"page", "json"}
              ELSE /\ ret.body = NoReport
                   /\ ret.kind = "redirect"
                   /\ ret.location = "list_reports"
                   /\ ret.flash = "Access denied"
    /\ ret.requester = 0 => ret.body = NoReport /\ ret.kind = "redirect"

C29_Witness ==
  /\ ret.op = "export_report"
  /\ Len(reports) = 1
  /\ ret.report_id = 1
  /\ ret.requester \in DOMAIN users
  /\ users[ret.requester].role = "ministry_official"
  /\ reports[1].user_id # ret.requester
  /\ users[reports[1].user_id].role = "user"
  /\ ret.flash = "Access denied"
  /\ ret.body = NoReport

\* the rows hold exactly one entry for every year from start to end
OneEntryPerYear(rows, year_range) ==
  /\ \A y \in year_range[1]..year_range[2] :
       Cardinality({i \in DOMAIN rows : rows[i].year = y}) = 1
  /\ \A i \in DOMAIN rows : rows[i].year \in year_range[1]..year_range[2]

\* a request failure answered with the mock result of the same province and
\* year range
MockReturned ==
  /\ ret.exc = ""
  /\ ret.result.source = "Mock Data (Development)"
  /\ ret.result.province = ret.province
  /\ ret.result.year_range = ret.year_range
  /\ OneEntryPerYear(ret.result.forest_loss_data, ret.year_range)

\* C30 as stated: for a province in the mapping a RequestException gives the
\* mock result with one entry per year, and only a province absent from the
\* mapping makes get_forest_loss_data raise (ValueError).
C30_OnlyAbsentProvinceRaises ==
  ret.op = "get_forest_loss_data" =>
    /\ (ret.province \in MappedProvinces /\ ret.http \in RequestExceptions)
         => MockReturned
    /\ ret.exc # "" => /\ ret.province \notin MappedProvinces
                       /\ ret.exc = "ValueError"

\* C30, amended: for a province in the mapping a RequestException gives the
\* mock result of the same province and year range with one entry per year;
\* a province absent from the mapping raises ValueError; for a province in
\* the mapping the call raises only when the response body is JSON but not
\* an object (AttributeError) or is not JSON and response.json() raises a
\* ValueError that is not a RequestException.
C30_RaisesOnMalformedBody ==
  ret.op = "get_forest_loss_data" =>
    /\ (ret.province \in MappedProvinces /\ ret.http \in RequestExceptions)
         => MockReturned
    /\ ret.province \notin MappedProvinces => ret.exc = "ValueError"
    /\ (ret.province \in MappedProvinces /\ ret.exc # "")
         => \/ ret.http = "array" /\ ret.exc = "AttributeError"
            \/ ret.http = "not_json" /\ ret.exc = "ValueError"
    /\ (ret.province \in MappedProvinces /\ ret.http = "array")
         => ret.exc = "AttributeError"
    /\ (ret.province \in MappedProvinces
        /\ ret.http \in {"object", "object_no_data"})
         => /\ ret.exc = ""
            /\ ret.result.source = "Global Forest Watch"

C30_Witness ==
  /\ ret.op = "get_forest_loss_data"
  /\ ret.province = "Nord-Kivu"
  /\ ret.year_range = <<2020, 2023>>
  /\ ret.http = "Timeout"
  /\ ret.exc = ""
  /\ Len(ret.result.forest_loss_data) = 4
  /\ ret.result.forest_loss_data[4].year = 2023
  /\ ret.result.admin_code = "CD-NK"
====
